---- MODULE Spec2Model ----
(***************************************************************************)
(* State-machine model of the Bluetooth clients of umg-security-vehicle:   *)
(*   - BluetoothServiceClass (services/BluetoothService.ts, BLE) and the   *)
(*     MainScreen that drives it (unnamed/part_008);                       *)
(*   - HC06BluetoothServiceClass (services/HC06BluetoothService.native.ts) *)
(*     with its hook (hooks/useHC06Bluetooth.ts) and screen                *)
(*     (components/common/Header.tsx, second MainScreen);                  *)
(*   - the web mock of HC06BluetoothServiceClass (unnamed/part_008).       *)
(* JavaScript runs one task at a time: an action is the code that runs     *)
(* from one resumption (call, timer, adapter event, promise settled by the *)
(* adapter) to the next await on the adapter or on a timer.                *)
(***************************************************************************)
EXTENDS Integers, Sequences, FiniteSets, TLC

\* ---------------------------------------------------------------- bounds
NumDevices == 2
MaxCalls == 2
MaxTaps == 2
MaxBeats == 1
MaxDisc == 1
MaxFails == 2
MaxTimers == 2
MaxReinit == 1
MaxEvents == 4
MaxSubs == 2
MaxUiEvents == 3

Devices == 1..NumDevices
Calls == 1..MaxCalls
Taps == 1..MaxTaps
Beats == 1..MaxBeats
NoDevice == 0

\* HC06BluetoothServiceClass.MAX_RETRY_ATTEMPTS
MAX_RETRY_ATTEMPTS == 3
Subs == 1..MaxSubs

\* what a subscribed callback does when it is called: it returns, it throws, or it
\* calls the unsubscribe function it was given and returns (a one-shot listener).
Kinds == {"plain", "throws", "once"}

\* lists of subscribers, none twice
SubLists ==
  UNION {{l \in [1..n -> Subs] : \A a, b \in 1..n : a # b => l[a] # l[b]} : n \in 0..MaxSubs}

VARIABLES
  candidates,         \* per autoConnect call, of its scan: how many devices and how many
                      \* vehicle devices it gave, the bestDevice taken from it, and
                      \* whether a device that is no vehicle device had the strongest
                      \* signal (observation only)
  reply,              \* the line the actuator answered to the last command that
                      \* sendCommand wrote, "none" when the write failed (observation
                      \* only: sendCommand reads no answer)
  \* --- the actuator: the BLE firmware (test-bluetooth.js), times in milliseconds
  connectionActive,   \* a central is connected
  vehicleIsLocked,
  txValue,            \* the value last written to txCharacteristic
  rxValue,            \* the command last processed, "none" once txValue is
                      \* something else than its answer (observation only)
  sinceCommand,       \* currentTime - lastCommandTime
  sinceFwBeat,        \* currentTime - lastHeartbeat
  sinceHeartbeat,     \* time since the client's heartbeat interval last fired
  \* --- the device matchers applied to a scan result
  scanned,            \* the list scanDevices resolved to
  matchedDevices,     \* filterVehicleDevices(scanned)
  matchedBest,        \* vehicleDevices[0], the device autoConnect goes on with
  identified,         \* identifyVehicleDevice(scanned) of the stub service
  matcherRan,         \* which of the two has been applied
  \* --- HC06BluetoothServiceClass, web implementation (unnamed/part_008)
  connectionListeners,  \* the subscribed callbacks, in the order of their push
  seen,                 \* per subscriber: the last status it was called with
  kind,                 \* per subscriber: what its callback does when called
  delivered,            \* the callbacks the last notifyConnectionChange called, in
                        \* call order (observation only)
  \* --- HC06BluetoothServiceClass and the useHC06Bluetooth hook
  isScanning,         \* field of the HC-06 service
  attempt,            \* per connectToCommandReceiver call: the loop variable
  issued,             \* per call: Bluetooth.connectToDeviceAsync invocations (observation only)
  isConnecting,       \* useState of the hook
  hookError,          \* useState error of the hook: TRUE when non-null
  budget,        \* events of the user and of the radio environment still to come
  client,             \* who drives the service: "api" | "screen" | "hc06" | "web"
  last,               \* label of what the last action did (observation only)
  \* --- the platform adapter (react-native-ble-plx BleManager / Device)
  radio,              \* manager.state(): "PoweredOn" | "PoweredOff"
  link,               \* per device: "closed" | "connecting" | "open"
  monitored,          \* devices carrying an onDisconnected listener of the service
  pendingDisc,        \* devices whose disconnected event is on its way to JS
  \* --- BluetoothServiceClass fields
  isInitialized,
  isConnected,
  connectedDevice,    \* NoDevice is null
  scanSubscription,   \* TRUE: non-null
  heartbeatInterval,  \* TRUE: an interval timer is held
  \* --- timers of the BLE service
  scanTimers,         \* pending scanTimeout timers (scanDevices)
  connTimers,         \* pending connection-timeout timers (connectToDevice)
  \* --- running instances of the async methods
  cPc, cDev,          \* autoConnect / connectToDevice calls
  disconnecting,      \* disconnect() calls awaiting cancelConnection()
  hPc, hDev, hAct,    \* sendCommand calls of the user (handleVehicleAction)
  bPc, bDev,          \* heartbeat interval callbacks
  hbFails,            \* consecutive failed keep-alive probes (observation only)
  \* --- MainScreen (unnamed/part_008) React state and its pending work
  mounted,            \* "no" (before the first effect) | "yes" | "gone"
  appState,           \* AppState: "active" | "background"
  uiIsConnected,      \* useState isConnected
  vehicleState,       \* "locked" | "unlocked" | "unknown"
  isProcessing,
  isSearching,
  effectPending,      \* the [isConnected] effect has to re-run
  reinitTimers,       \* pending setTimeout(initializeBluetoothConnection, 1000)
  kPc, kDev, kSeen    \* the connectionCheckInterval callback in flight

bleVars == <<radio, link, monitored, pendingDisc, isInitialized, isConnected,
             connectedDevice, scanSubscription, heartbeatInterval, scanTimers, connTimers,
             cPc, cDev, disconnecting, hPc, hDev, hAct, bPc, bDev, hbFails>>

uiVars == <<mounted, appState, uiIsConnected, vehicleState, isProcessing, isSearching, effectPending,
            reinitTimers, kPc, kDev, kSeen>>

hcVars == <<isScanning, attempt, issued, isConnecting, hookError>>

webVars == <<connectionListeners, seen, kind, delivered>>

matchVars == <<scanned, matchedDevices, matchedBest, identified, matcherRan>>

fwVars == <<connectionActive, vehicleIsLocked, txValue, rxValue, sinceCommand, sinceFwBeat,
            sinceHeartbeat>>

vars == <<client, budget, last, bleVars, uiVars, hcVars, webVars, fwVars, matchVars, candidates, reply>>

\* the firmware (test-bluetooth.js) and the heartbeat of the client, in milliseconds
FW_CONNECTION_TIMEOUT == 8000
FW_HEARTBEAT_INTERVAL == 15000
HEARTBEAT_INTERVAL == 15000
LOOP_DELAY == 100
MaxFwEvents == 2

\* the lines a central writes to rxCharacteristic
Lines == {"LOCK", "UNLOCK", "STATUS", "PING"}

\* lines the actuator can answer, and the answers that mean success for each
\* command
Replies == {"LOCKED_OK", "UNKNOWN_COMMAND"}

Expected(a) ==
  IF a = "lock" THEN {"LOCKED_OK"}
  ELSE IF a = "unlock" THEN {"UNLOCKED_OK"}
  ELSE {"LOCKED", "UNLOCKED"}

\* ---------------------------------------------------------- device matcher
\* A discovered device is [id, match, rssi]: match says whether its name contains one
\* of VEHICLE_DEVICE_PATTERNS case-insensitively; rssi is <<>> when null, else <<n>>.
OtherId == NumDevices + 1
RssiValues == {<<>>, <<-40>>, <<-70>>}
Discovered == [id : 1..OtherId, match : BOOLEAN, rssi : RssiValues]
NamedAs(d) == d.match = (d.id \in Devices)

\* scanDevices keeps one entry per device.id, in discovery order.
DistinctIds(s) == \A i, j \in 1..Len(s) : i # j => s[i].id # s[j].id

ScanResults ==
  LET Seen == {d \in Discovered : NamedAs(d)}
  IN  {<<>>} \cup {<<a>> : a \in Seen} \cup {s \in {<<a, b>> : a, b \in Seen} : DistinctIds(s)}

\* (x.rssi || -100): null and 0 are falsy.
RssiOr(r) == IF r = <<>> \/ r[1] = 0 THEN -100 ELSE r[1]

\* devices.filter(device => device.name && some pattern is included in its name)
IsVehicle(d) == d.match

RECURSIVE FilterVehicle(_)
FilterVehicle(s) ==
  IF s = <<>> THEN <<>>
  ELSE IF IsVehicle(Head(s)) THEN <<Head(s)>> \o FilterVehicle(Tail(s))
       ELSE FilterVehicle(Tail(s))

\* Array.prototype.sort with comparator (a, b) => (b.rssi || -100) - (a.rssi || -100):
\* a stable sort, strongest signal first.
RECURSIVE InsertByRssi(_, _)
InsertByRssi(d, s) ==
  IF s = <<>> THEN <<d>>
  ELSE IF RssiOr(Head(s).rssi) >= RssiOr(d.rssi) THEN <<Head(s)>> \o InsertByRssi(d, Tail(s))
       ELSE <<d>> \o s

RECURSIVE SortByRssi(_)
SortByRssi(s) ==
  IF s = <<>> THEN <<>>
  ELSE InsertByRssi(s[Len(s)], SortByRssi(SubSeq(s, 1, Len(s) - 1)))

\* the sort without the filter
sortAllDevices(devices) == SortByRssi(devices)
filterVehicleDevices(devices) == SortByRssi(FilterVehicle(devices))

\* autoConnect: vehicleDevices[0] of the filtered scan, NoDevice when it is empty.
BestOfAny(devices) == IF Len(devices) = 0 THEN NoDevice ELSE devices[1].id
BestOf(devices) ==
  LET vehicleDevices == filterVehicleDevices(devices)
  IN  IF Len(vehicleDevices) = 0 THEN NoDevice ELSE vehicleDevices[1].id

\* a device of the list that is no vehicle device has a stronger signal than every
\* vehicle device of the list
Outshone(devices) ==
  \E n \in 1..Len(devices) :
    /\ ~IsVehicle(devices[n])
    /\ \A m \in 1..Len(devices) :
         IsVehicle(devices[m]) => RssiOr(devices[n].rssi) > RssiOr(devices[m].rssi)

\* any scan result: devices of any name with any signal, 0 and values below -100
\* included
MaxScan == 2
RssiAll == RssiValues \cup {<<0>>, <<-110>>}
AnyScans ==
  LET Found == [id : 1..MaxScan, match : BOOLEAN, rssi : RssiAll]
  IN  {<<>>} \cup {<<a>> : a \in Found}
             \cup {s \in {<<a, b>> : a, b \in Found} : DistinctIds(s)}

\* identifyVehicleDevice of the stub service, for devices whose names hold the same
\* pattern if any: the first device found by name, else the only device of
\* devices.filter(d => d.rssi && d.rssi > -60), else null.
STRONG_SIGNAL == -60
IsStrong(d) == d.rssi # <<>> /\ d.rssi[1] # 0 /\ d.rssi[1] > STRONG_SIGNAL

RECURSIVE FilterStrong(_)
FilterStrong(s) ==
  IF s = <<>> THEN <<>>
  ELSE IF IsStrong(Head(s)) THEN <<Head(s)>> \o FilterStrong(Tail(s))
       ELSE FilterStrong(Tail(s))

identifyVehicleDevice(devices) ==
  LET byName == FilterVehicle(devices)
      strongSignalDevices == FilterStrong(devices)
  IN  IF byName # <<>> THEN byName[1].id
      ELSE IF Len(strongSignalDevices) = 1 THEN strongSignalDevices[1].id
      ELSE NoDevice

NoScan == [devices |-> 0, vehicle |-> 0, best |-> NoDevice, outshone |-> FALSE]

\* every choice of bestDevice a scan can lead to
BestDevices == {BestOf(found) : found \in ScanResults}

\* ------------------------------------------------------------------ Init
TypeOK ==
  /\ client \in {"api", "screen", "hc06", "web", "firmware", "matcher"}
  /\ budget \in 0..(MaxEvents + MaxUiEvents)
  /\ radio \in {"PoweredOn", "PoweredOff"}
  /\ link \in [Devices -> {"closed", "connecting", "open"}]
  /\ monitored \subseteq Devices /\ pendingDisc \subseteq Devices
  /\ isInitialized \in BOOLEAN /\ isConnected \in BOOLEAN
  /\ connectedDevice \in Devices \cup {NoDevice}
  /\ scanSubscription \in BOOLEAN /\ heartbeatInterval \in BOOLEAN
  /\ scanTimers \in 0..MaxCalls /\ connTimers \in 0..MaxTimers
  /\ cPc \in [Calls -> {"idle", "initializing", "scanning", "cancelling", "connecting",
                        "discovering", "paired", "attempting", "backoff"}]
  /\ cDev \in [Calls -> Devices \cup {NoDevice}]
  /\ disconnecting \in 0..MaxDisc
  /\ hPc \in [Taps -> {"idle", "checking", "writing", "reading"}]
  /\ hDev \in [Taps -> Devices \cup {NoDevice}]
  /\ hAct \in [Taps -> {"none", "lock", "unlock", "status"}]
  /\ bPc \in [Beats -> {"idle", "checking", "writing"}]
  /\ bDev \in [Beats -> Devices \cup {NoDevice}]
  /\ hbFails \in 0..MaxFails
  /\ mounted \in {"no", "yes", "gone"} /\ appState \in {"active", "background"}
  /\ uiIsConnected \in BOOLEAN /\ isProcessing \in BOOLEAN /\ isSearching \in BOOLEAN
  /\ vehicleState \in {"locked", "unlocked", "unknown"}
  /\ effectPending \in BOOLEAN /\ reinitTimers \in 0..MaxReinit
  /\ kPc \in {"idle", "checking"} /\ kDev \in Devices \cup {NoDevice} /\ kSeen \in BOOLEAN
  /\ isScanning \in BOOLEAN /\ isConnecting \in BOOLEAN /\ hookError \in BOOLEAN
  /\ attempt \in [Calls -> 0..MAX_RETRY_ATTEMPTS]
  /\ issued \in [Calls -> 0..MAX_RETRY_ATTEMPTS]
  /\ scanned \in AnyScans /\ matchedDevices \in AnyScans
  /\ matchedBest \in 1..MaxScan \cup {NoDevice} /\ identified \in 1..MaxScan \cup {NoDevice}
  /\ matcherRan \subseteq {"filter", "identify"}
  /\ connectionActive \in BOOLEAN /\ vehicleIsLocked \in BOOLEAN
  /\ txValue \in {"none", "LOCKED", "UNLOCKED", "UNKNOWN_COMMAND", "HEARTBEAT_LOCKED",
                  "HEARTBEAT_UNLOCKED"}
  /\ rxValue \in Lines \cup {"none"}
  /\ sinceCommand \in 0..(FW_CONNECTION_TIMEOUT + LOOP_DELAY)
  /\ sinceFwBeat \in 0..(FW_HEARTBEAT_INTERVAL + LOOP_DELAY)
  /\ sinceHeartbeat \in 0..HEARTBEAT_INTERVAL
  /\ connectionListeners \in SubLists
  /\ kind \in [Subs -> Kinds]
  /\ delivered \in SubLists
  /\ seen \in [Subs -> {"none", "error", "down"}]
  /\ reply \in Replies \cup {"none"}
  /\ candidates \in [Calls -> [devices : 0..(NumDevices + 1), vehicle : 0..NumDevices,
                                best : 0..NumDevices, outshone : BOOLEAN]]

InitBle ==
  /\ candidates = [i \in Calls |-> NoScan]
  /\ reply = "none"
  /\ radio \in {"PoweredOn", "PoweredOff"}
  /\ link = [d \in Devices |-> "closed"]
  /\ monitored = {} /\ pendingDisc = {}
  /\ isInitialized = FALSE /\ isConnected = FALSE /\ connectedDevice = NoDevice
  /\ scanSubscription = FALSE /\ heartbeatInterval = FALSE
  /\ scanTimers = 0 /\ connTimers = 0
  /\ cPc = [i \in Calls |-> "idle"] /\ cDev = [i \in Calls |-> NoDevice]
  /\ disconnecting = 0
  /\ hPc = [k \in Taps |-> "idle"] /\ hDev = [k \in Taps |-> NoDevice]
  /\ hAct = [k \in Taps |-> "none"]
  /\ bPc = [b \in Beats |-> "idle"] /\ bDev = [b \in Beats |-> NoDevice]
  /\ hbFails = 0

InitHc ==
  /\ connectionListeners = <<>> /\ seen = [s \in Subs |-> "none"]
  /\ kind = [s \in Subs |-> "plain"] /\ delivered = <<>>
  /\ isScanning = FALSE /\ isConnecting = FALSE /\ hookError = FALSE
  /\ attempt = [i \in Calls |-> 0] /\ issued = [i \in Calls |-> 0]

\* no matcher has been applied yet
InitMatch ==
  /\ matchedDevices = <<>> /\ matchedBest = NoDevice /\ identified = NoDevice
  /\ matcherRan = {}

\* setup() of the firmware: vehicleIsLocked = true, connectionActive = false
InitFw ==
  /\ connectionActive = FALSE /\ vehicleIsLocked = TRUE
  /\ txValue = "none" /\ rxValue = "none"
  /\ sinceCommand = 0 /\ sinceFwBeat = 0 /\ sinceHeartbeat = 0

InitUi ==
  /\ mounted = "no" /\ appState = "active" /\ uiIsConnected = FALSE /\ vehicleState = "unknown"
  /\ isProcessing = FALSE /\ isSearching = FALSE /\ effectPending = FALSE
  /\ reinitTimers = 0
  /\ kPc = "idle" /\ kDev = NoDevice /\ kSeen = FALSE

\* --------------------------------------------------- BluetoothServiceClass
cmdVars == <<hPc, hDev, hAct, bPc, bDev, hbFails>>
uiRest == <<mounted, appState, isProcessing, reinitTimers, kPc, kDev, kSeen>>

\* The lowest free instance slot (the slots are interchangeable).
\* one more event of the environment happens
Spend == budget > 0 /\ budget' = budget - 1

FreeCall(i) == cPc[i] = "idle" /\ \A j \in Calls : j < i => cPc[j] # "idle"

\* What initializeBluetoothConnection does with the value autoConnect resolved to:
\* setIsConnected, setVehicleState('locked'), finally setIsSearching(false). A change
\* of isConnected schedules the [isConnected] effect again. Other callers only see
\* the returned value.
AfterConnect(ok) ==
  IF client = "screen" /\ mounted = "yes"
  THEN /\ uiIsConnected' = ok
       /\ vehicleState' = IF ok THEN "locked" ELSE vehicleState
       /\ isSearching' = FALSE
       /\ effectPending' = (effectPending \/ uiIsConnected # ok)
       /\ UNCHANGED uiRest
  ELSE UNCHANGED uiVars

\* autoConnect / connectToDevice instance i resolves to ok; how names the way it
\* ended.
Returned(i, ok, how) ==
  /\ cPc' = [cPc EXCEPT ![i] = "idle"]
  /\ cDev' = [cDev EXCEPT ![i] = NoDevice]
  /\ last' = how
  /\ AfterConnect(ok)

Return(i, ok) == Returned(i, ok, IF ok THEN "none" ELSE "connect_false")

\* device.connect() raced against setTimeout(CONNECTION_TIMEOUT).
IssueConnect(i, d, lk) ==
  /\ connTimers < MaxTimers
  /\ link' = [lk EXCEPT ![d] = IF lk[d] = "closed" THEN "connecting" ELSE lk[d]]
  /\ connTimers' = connTimers + 1
  /\ cPc' = [cPc EXCEPT ![i] = "connecting"]
  /\ cDev' = [cDev EXCEPT ![i] = d]
  /\ last' = "adapter_connect"

\* connectedDevice.cancelConnection(): the adapter closes the link; the listeners
\* registered with onDisconnected hear of it later.
Cancelled(d) == [link EXCEPT ![d] = "closed"]
CancelEvents(d) == IF link[d] = "open" /\ d \in monitored THEN pendingDisc \cup {d} ELSE pendingDisc

\* connectToDevice(device) up to its first await on the adapter.
ConnectToDevice(i, d) ==
  IF connectedDevice = d /\ isConnected
  THEN \* 'Ya conectado a este dispositivo'
       /\ Return(i, TRUE)
       /\ UNCHANGED <<link, pendingDisc, isConnected, connectedDevice, scanSubscription,
                      heartbeatInterval, connTimers>>
  ELSE IF connectedDevice # NoDevice
  THEN \* disconnect(): stopHeartbeat, then await cancelConnection()
       /\ heartbeatInterval' = FALSE
       /\ link' = Cancelled(connectedDevice)
       /\ pendingDisc' = CancelEvents(connectedDevice)
       /\ cPc' = [cPc EXCEPT ![i] = "cancelling"]
       /\ cDev' = [cDev EXCEPT ![i] = d]
       /\ last' = "adapter_cancel"
       /\ UNCHANGED <<isConnected, connectedDevice, scanSubscription, connTimers, uiVars>>
  ELSE \* disconnect() has nothing to await
       /\ heartbeatInterval' = FALSE
       /\ scanSubscription' = FALSE
       /\ isConnected' = FALSE
       /\ connectedDevice' = NoDevice
       /\ IssueConnect(i, d, link)
       /\ UNCHANGED <<pendingDisc, uiVars>>

\* initialize(): permissions, then manager.state() === State.PoweredOn.
ApiInitialize ==
  /\ client = "api"
  /\ \E granted \in BOOLEAN :
       LET ok == granted /\ radio = "PoweredOn"
       IN  /\ isInitialized' = (isInitialized \/ ok)
           /\ last' = "none"
  /\ Spend /\ UNCHANGED <<candidates, webVars, hcVars, fwVars, matchVars, reply, client, radio, link, monitored, pendingDisc, isConnected,
                 connectedDevice, scanSubscription, heartbeatInterval, scanTimers, connTimers,
                 cPc, cDev, disconnecting, cmdVars, uiVars>>

\* autoConnect() up to the await of scanDevices(): scanDevices throws when the
\* service is not initialized, else arms scanTimeout and starts the adapter's scan.
AutoConnect(i, initialized) ==
  IF ~initialized
  THEN /\ Return(i, FALSE)
       /\ UNCHANGED <<scanTimers, scanSubscription>>
  ELSE /\ scanTimers < MaxCalls
       /\ scanTimers' = scanTimers + 1
       /\ scanSubscription' = TRUE
       /\ cPc' = [cPc EXCEPT ![i] = "scanning"]
       /\ last' = "scan_started"
       /\ UNCHANGED <<cDev, uiVars>>

ApiAutoConnect(i) ==
  /\ client = "api" /\ FreeCall(i)
  /\ AutoConnect(i, isInitialized)
  /\ Spend /\ UNCHANGED <<candidates, webVars, hcVars, fwVars, matchVars, reply, client, radio, link, monitored, pendingDisc, isInitialized, isConnected,
                 connectedDevice, heartbeatInterval, connTimers, disconnecting, cmdVars>>

ApiConnectToDevice(i, d) ==
  /\ client = "api" /\ FreeCall(i)
  /\ ConnectToDevice(i, d)
  /\ Spend /\ UNCHANGED <<candidates, webVars, hcVars, fwVars, matchVars, reply, client, radio, monitored, isInitialized, scanTimers, disconnecting, cmdVars>>

\* what a scan can resolve to with the devices inRange
ScanOf(inRange) ==
  {found \in ScanResults :
     \A n \in 1..Len(found) : found[n].id \in inRange}

\* the devices around: the vehicle devices D and, in the scenarios with every
\* vehicle device, a foreign device as well
Around(D) == IF D = Devices THEN D \cup {OtherId} ELSE D

\* scanTimeout fires: stopDeviceScan, resolve(devices); autoConnect goes on with
\* filterVehicleDevices(devices)[0].
ScanTimeout(i, inRange) ==
  /\ cPc[i] = "scanning"
  /\ scanTimers' = scanTimers - 1
  /\ \E availableDevices \in ScanOf(inRange) :
       LET bestDevice == BestOf(availableDevices)
       IN  /\ candidates' = [candidates EXCEPT
                               ![i] = [devices |-> Len(availableDevices),
                                       vehicle |-> Len(FilterVehicle(availableDevices)),
                                       best |-> bestDevice,
                                       outshone |-> Outshone(availableDevices)]]
           /\ IF bestDevice = NoDevice
              THEN /\ Returned(i, FALSE, "no_match")
                   /\ UNCHANGED <<link, pendingDisc, isConnected, connectedDevice,
                                  scanSubscription, heartbeatInterval, connTimers>>
              ELSE ConnectToDevice(i, bestDevice)
  /\ UNCHANGED <<webVars, hcVars, fwVars, matchVars, reply, client, budget, radio, monitored, isInitialized, disconnecting, cmdVars>>

\* the scan callback receives an error: clearTimeout, stopDeviceScan, reject.
ScanError(i) ==
  /\ cPc[i] = "scanning"
  /\ scanTimers' = scanTimers - 1
  /\ Return(i, FALSE)
  /\ candidates' = [candidates EXCEPT ![i] = NoScan]
  /\ UNCHANGED <<webVars, hcVars, fwVars, matchVars, reply, client, budget, radio, link, monitored, pendingDisc, isInitialized, isConnected,
                 connectedDevice, scanSubscription, heartbeatInterval, connTimers,
                 disconnecting, cmdVars>>

\* await this.disconnect() inside connectToDevice resumes: cancelConnection()
\* resolved or threw (then the scan part is skipped); finally; then device.connect().
CancelDone(i) ==
  /\ cPc[i] = "cancelling"
  /\ \E threw \in BOOLEAN :
       /\ scanSubscription' = IF threw THEN scanSubscription ELSE FALSE
  /\ isConnected' = FALSE
  /\ connectedDevice' = NoDevice
  /\ IssueConnect(i, cDev[i], link)
  /\ UNCHANGED <<candidates, webVars, hcVars, fwVars, matchVars, reply, client, budget, radio, monitored, pendingDisc, isInitialized, heartbeatInterval,
                 scanTimers, disconnecting, cmdVars, uiVars>>

\* device.connect() resolves.
ConnectOk(i) ==
  /\ cPc[i] = "connecting"
  /\ radio = "PoweredOn"
  /\ link[cDev[i]] # "closed"
  /\ link' = [link EXCEPT ![cDev[i]] = "open"]
  /\ cPc' = [cPc EXCEPT ![i] = "discovering"]
  /\ last' = "none"
  /\ UNCHANGED <<candidates, webVars, hcVars, fwVars, matchVars, reply, client, budget, radio, monitored, pendingDisc, isInitialized, isConnected,
                 connectedDevice, scanSubscription, heartbeatInterval, scanTimers, connTimers,
                 cDev, disconnecting, cmdVars, uiVars>>

\* the catch block of connectToDevice
CatchConnect(i) ==
  /\ isConnected' = FALSE
  /\ connectedDevice' = NoDevice
  /\ Return(i, FALSE)

\* device.connect() rejects.
ConnectFail(i) ==
  /\ cPc[i] = "connecting"
  /\ link' = [link EXCEPT ![cDev[i]] = IF @ = "connecting" THEN "closed" ELSE @]
  /\ CatchConnect(i)
  /\ UNCHANGED <<candidates, webVars, hcVars, fwVars, matchVars, reply, client, budget, radio, monitored, pendingDisc, isInitialized,
                 scanSubscription, heartbeatInterval, scanTimers, connTimers,
                 disconnecting, cmdVars>>

\* the connection timeout of instance i fires first: the race rejects, the adapter
\* goes on connecting.
ConnectTimeout(i) ==
  /\ cPc[i] = "connecting"
  /\ connTimers' = connTimers - 1
  /\ CatchConnect(i)
  /\ UNCHANGED <<candidates, webVars, hcVars, fwVars, matchVars, reply, client, budget, radio, link, monitored, pendingDisc, isInitialized,
                 scanSubscription, heartbeatInterval, scanTimers, disconnecting, cmdVars>>

\* a connection timeout whose race is already settled fires (nobody clears it).
StaleTimerFires ==
  /\ connTimers > Cardinality({i \in Calls : cPc[i] = "connecting"})
  /\ connTimers' = connTimers - 1
  /\ last' = "none"
  /\ UNCHANGED <<candidates, webVars, hcVars, fwVars, matchVars, reply, client, budget, radio, link, monitored, pendingDisc, isInitialized,
                 isConnected, connectedDevice, scanSubscription, heartbeatInterval,
                 scanTimers, cPc, cDev, disconnecting, cmdVars, uiVars>>

\* the adapter ends a connect nobody awaits any more.
AdapterLate(d) ==
  /\ link[d] = "connecting"
  /\ \A i \in Calls : ~(cPc[i] = "connecting" /\ cDev[i] = d)
  /\ \E ok \in BOOLEAN :
       /\ ok => radio = "PoweredOn"
       /\ link' = [link EXCEPT ![d] = IF ok THEN "open" ELSE "closed"]
  /\ last' = "none"
  /\ UNCHANGED <<candidates, webVars, hcVars, fwVars, matchVars, reply, client, budget, radio, monitored, pendingDisc, isInitialized,
                 isConnected, connectedDevice, scanSubscription, heartbeatInterval,
                 scanTimers, connTimers, cPc, cDev, disconnecting, cmdVars, uiVars>>

\* discoverAllServicesAndCharacteristics() resolves: the session opens, the
\* onDisconnected listener is registered, startHeartbeat().
DiscoverOk(i) ==
  /\ cPc[i] = "discovering"
  /\ link[cDev[i]] = "open"
  /\ connectedDevice' = cDev[i]
  /\ isConnected' = TRUE
  /\ monitored' = monitored \cup {cDev[i]}
  /\ heartbeatInterval' = TRUE
  /\ hbFails' = 0
  /\ Return(i, TRUE)
  /\ UNCHANGED <<candidates, webVars, hcVars, fwVars, matchVars, reply, client, budget, radio, link, pendingDisc, isInitialized, scanSubscription,
                 scanTimers, connTimers, disconnecting, hPc, hDev, hAct, bPc, bDev>>

DiscoverFail(i) ==
  /\ cPc[i] = "discovering"
  /\ CatchConnect(i)
  /\ UNCHANGED <<candidates, webVars, hcVars, fwVars, matchVars, reply, client, budget, radio, link, monitored, pendingDisc, isInitialized,
                 scanSubscription, heartbeatInterval, scanTimers, connTimers,
                 disconnecting, cmdVars>>

\* ---- disconnect()
\* disconnect() up to its await: stopHeartbeat(); with a device held it awaits
\* cancelConnection(), else it runs to its end (the scan part, then finally).
CanDisconnect == connectedDevice # NoDevice => disconnecting < MaxDisc

Disconnect ==
  /\ heartbeatInterval' = FALSE
  /\ IF connectedDevice # NoDevice
     THEN /\ link' = Cancelled(connectedDevice)
          /\ pendingDisc' = CancelEvents(connectedDevice)
          /\ disconnecting' = disconnecting + 1
          /\ UNCHANGED <<isConnected, connectedDevice, scanSubscription>>
     ELSE /\ scanSubscription' = FALSE
          /\ isConnected' = FALSE
          /\ connectedDevice' = NoDevice
          /\ UNCHANGED <<link, pendingDisc, disconnecting>>

ApiDisconnect ==
  /\ client = "api" /\ CanDisconnect
  /\ Disconnect
  /\ last' = IF connectedDevice # NoDevice THEN "adapter_cancel" ELSE "disconnect_returned"
  /\ Spend /\ UNCHANGED <<candidates, webVars, hcVars, fwVars, matchVars, reply, client, radio, monitored, isInitialized, scanTimers, connTimers, cPc, cDev,
                 cmdVars, uiVars>>

\* a disconnect() call resumes after cancelConnection() and returns.
DisconnectDone ==
  /\ disconnecting > 0
  /\ disconnecting' = disconnecting - 1
  /\ \E threw \in BOOLEAN :
       /\ scanSubscription' = IF threw THEN scanSubscription ELSE FALSE
  /\ isConnected' = FALSE
  /\ connectedDevice' = NoDevice
  /\ last' = "disconnect_returned"
  /\ UNCHANGED <<candidates, webVars, hcVars, fwVars, matchVars, reply, client, budget, radio, link, monitored, pendingDisc, isInitialized,
                 heartbeatInterval, scanTimers, connTimers, cPc, cDev, cmdVars, uiVars>>

\* ---- the adapter's own events
\* a loss of the link to d of which no listener is ever told.
AdapterDropUnheard(d) ==
  /\ link[d] = "open"
  /\ link' = [link EXCEPT ![d] = "closed"]
  /\ last' = "none"
  /\ Spend /\ UNCHANGED <<candidates, webVars, hcVars, fwVars, matchVars, reply, client, radio, monitored, isInitialized, isConnected,
                 connectedDevice, scanSubscription, heartbeatInterval, scanTimers, connTimers,
                 cPc, cDev, disconnecting, cmdVars, uiVars, pendingDisc>>

\* the link to d is lost (out of range, peripheral closed it).
AdapterDrop(d) ==
  /\ link[d] = "open"
  /\ link' = [link EXCEPT ![d] = "closed"]
  /\ pendingDisc' = IF d \in monitored THEN pendingDisc \cup {d} ELSE pendingDisc
  /\ last' = "none"
  /\ Spend /\ UNCHANGED <<candidates, webVars, hcVars, fwVars, matchVars, reply, client, radio, monitored, isInitialized, isConnected,
                 connectedDevice, scanSubscription, heartbeatInterval, scanTimers, connTimers,
                 cPc, cDev, disconnecting, cmdVars, uiVars>>

\* the user switches the radio off: every link goes down.
RadioOff ==
  /\ radio = "PoweredOn"
  /\ radio' = "PoweredOff"
  /\ link' = [d \in Devices |-> "closed"]
  /\ pendingDisc' = pendingDisc \cup {d \in monitored : link[d] = "open"}
  /\ last' = "none"
  /\ Spend /\ UNCHANGED <<candidates, webVars, hcVars, fwVars, matchVars, reply, client, monitored, isInitialized, isConnected, connectedDevice,
                 scanSubscription, heartbeatInterval, scanTimers, connTimers, cPc, cDev,
                 disconnecting, cmdVars, uiVars>>

RadioOn ==
  /\ radio = "PoweredOff"
  /\ radio' = "PoweredOn"
  /\ last' = "none"
  /\ Spend /\ UNCHANGED <<candidates, webVars, hcVars, fwVars, matchVars, reply, client, link, monitored, pendingDisc, isInitialized, isConnected,
                 connectedDevice, scanSubscription, heartbeatInterval, scanTimers, connTimers,
                 cPc, cDev, disconnecting, cmdVars, uiVars>>

\* the listener given to deviceWithServices.onDisconnected runs.
OnDisconnected(d) ==
  /\ d \in pendingDisc
  /\ pendingDisc' = pendingDisc \ {d}
  /\ isConnected' = FALSE
  /\ connectedDevice' = NoDevice
  /\ heartbeatInterval' = FALSE
  /\ last' = "none"
  /\ UNCHANGED <<candidates, webVars, hcVars, fwVars, matchVars, reply, client, budget, radio, link, monitored, isInitialized, scanSubscription,
                 scanTimers, connTimers, cPc, cDev, disconnecting, cmdVars, uiVars>>

\* ---- sendCommand and the heartbeat
\* connectedDevice.isConnected(): the adapter's answer for device d, or an error.
Answers(d) == (IF link[d] = "open" THEN {"yes"} ELSE {"no"}) \cup {"throw"}

Min(a, b) == IF a < b THEN a ELSE b

\* sendCommand(command): throws without a session, else awaits
\* writeCharacteristicWithResponseForService on connectedDevice.
\* no check of the session at all
CanSendAlways == TRUE
CanSend == isConnected /\ connectedDevice # NoDevice

FreeTap(k) == hPc[k] = "idle" /\ \A j \in Taps : j < k => hPc[j] # "idle"

ApiSendCommand(k, a) ==
  /\ client = "api" /\ FreeTap(k)
  /\ IF CanSend
     THEN /\ hPc' = [hPc EXCEPT ![k] = "writing"]
          /\ hDev' = [hDev EXCEPT ![k] = connectedDevice]
          /\ hAct' = [hAct EXCEPT ![k] = a]
          /\ last' = "write_issued"
     ELSE /\ last' = "send_threw"
          /\ UNCHANGED <<hPc, hDev, hAct>>
  /\ Spend /\ UNCHANGED <<candidates, webVars, hcVars, fwVars, matchVars, reply, client, radio, link, monitored, pendingDisc, isInitialized,
                 isConnected, connectedDevice, scanSubscription, heartbeatInterval,
                 scanTimers, connTimers, cPc, cDev, disconnecting, bPc, bDev, hbFails, uiVars>>

\* what handleVehicleAction does once sendCommand settled: setVehicleState on
\* success, finally setIsProcessing(false).
AfterSend(a, ok) ==
  IF client = "screen" /\ mounted = "yes"
  THEN /\ vehicleState' = IF ok THEN (IF a = "lock" THEN "locked" ELSE "unlocked")
                          ELSE vehicleState
       /\ isProcessing' = FALSE
       /\ UNCHANGED <<mounted, appState, uiIsConnected, isSearching, effectPending,
                      reinitTimers, kPc, kDev, kSeen>>
  ELSE UNCHANGED uiVars

EndSend(k, ok) ==
  /\ hPc' = [hPc EXCEPT ![k] = "idle"]
  /\ hDev' = [hDev EXCEPT ![k] = NoDevice]
  /\ hAct' = [hAct EXCEPT ![k] = "none"]
  /\ last' = IF ok THEN "send_true" ELSE "send_false"
  /\ AfterSend(hAct[k], ok)

\* the write resolves: sendCommand returns true. The actuator answers the command
\* with some line, which nothing reads.
WriteOk(k) ==
  /\ hPc[k] = "writing"
  /\ link[hDev[k]] = "open"
  /\ EndSend(k, TRUE)
  /\ \E line \in Replies : reply' = line
  /\ UNCHANGED <<candidates, webVars, hcVars, fwVars, matchVars, client, budget, radio, link, monitored, pendingDisc, isInitialized,
                 isConnected, connectedDevice, scanSubscription, heartbeatInterval,
                 scanTimers, connTimers, cPc, cDev, disconnecting, bPc, bDev, hbFails>>

\* the write rejects: sendCommand catches and returns false.
WriteFail(k) ==
  /\ hPc[k] = "writing"
  /\ EndSend(k, FALSE)
  /\ reply' = "none"
  /\ UNCHANGED <<candidates, webVars, hcVars, fwVars, matchVars, client, budget, radio, link, monitored, pendingDisc, isInitialized,
                 isConnected, connectedDevice, scanSubscription, heartbeatInterval,
                 scanTimers, connTimers, cPc, cDev, disconnecting, bPc, bDev, hbFails>>

FreeBeat(b) == bPc[b] = "idle" /\ \A j \in Beats : j < b => bPc[j] # "idle"

\* the interval callback of startHeartbeat starts: with a session it awaits
\* connectedDevice.isConnected().
HeartbeatTick(b) ==
  /\ heartbeatInterval /\ FreeBeat(b)
  /\ isConnected /\ connectedDevice # NoDevice
  /\ bPc' = [bPc EXCEPT ![b] = "checking"]
  /\ bDev' = [bDev EXCEPT ![b] = connectedDevice]
  /\ last' = "none"
  /\ Spend /\ UNCHANGED <<candidates, webVars, hcVars, fwVars, matchVars, reply, client, radio, link, monitored, pendingDisc, isInitialized,
                 isConnected, connectedDevice, scanSubscription, heartbeatInterval,
                 scanTimers, connTimers, cPc, cDev, disconnecting, hPc, hDev, hAct,
                 hbFails, uiVars>>

\* the link check of the heartbeat settles: a lost link or an error (also the throw
\* of sendCommand without a session) ends the session; else STATUS is written.
HeartbeatChecked(b) ==
  /\ bPc[b] = "checking"
  /\ \E res \in Answers(bDev[b]) :
       IF res = "yes" /\ CanSend
       THEN /\ bPc' = [bPc EXCEPT ![b] = "writing"]
            /\ bDev' = [bDev EXCEPT ![b] = connectedDevice]
            /\ last' = "write_issued"
            /\ UNCHANGED <<isConnected, connectedDevice, heartbeatInterval, hbFails>>
       ELSE /\ bPc' = [bPc EXCEPT ![b] = "idle"]
            /\ bDev' = [bDev EXCEPT ![b] = NoDevice]
            /\ isConnected' = FALSE
            /\ connectedDevice' = NoDevice
            /\ heartbeatInterval' = FALSE
            /\ hbFails' = Min(hbFails + 1, MaxFails)
            /\ last' = "none"
  /\ UNCHANGED <<candidates, webVars, hcVars, fwVars, matchVars, reply, client, budget, radio, link, monitored, pendingDisc, isInitialized,
                 scanSubscription, scanTimers, connTimers, cPc, cDev, disconnecting,
                 hPc, hDev, hAct, uiVars>>

\* the STATUS write of the heartbeat settles; sendCommand returns true or false and
\* the callback logs 'Heartbeat enviado - conexión OK' either way.
HeartbeatWritten(b) ==
  /\ bPc[b] = "writing"
  /\ \E ok \in BOOLEAN :
       /\ ok => link[bDev[b]] = "open"
       /\ hbFails' = IF ok THEN 0 ELSE Min(hbFails + 1, MaxFails)
       /\ last' = "none"
  /\ bPc' = [bPc EXCEPT ![b] = "idle"]
  /\ bDev' = [bDev EXCEPT ![b] = NoDevice]
  /\ UNCHANGED <<candidates, webVars, hcVars, fwVars, matchVars, reply, client, budget, radio, link, monitored, pendingDisc, isInitialized,
                 isConnected, connectedDevice, scanSubscription, heartbeatInterval,
                 scanTimers, connTimers, cPc, cDev, disconnecting, hPc, hDev, hAct, uiVars>>

\* ------------------------------------------------ MainScreen (part_008)
\* setIsConnected(v) of a mounted screen; a change re-runs the [isConnected] effect.
SetIsConnected(v) ==
  IF mounted = "yes"
  THEN /\ uiIsConnected' = v
       /\ effectPending' = (effectPending \/ uiIsConnected # v)
  ELSE UNCHANGED <<uiIsConnected, effectPending>>

\* initializeBluetoothConnection() up to its await of initialize().
StartInit(i) ==
  /\ cPc' = [cPc EXCEPT ![i] = "initializing"]
  /\ isSearching' = IF mounted = "gone" THEN isSearching ELSE TRUE
  /\ UNCHANGED cDev

\* The effect of MainScreen runs: on mount, and again after every change of
\* isConnected, then preceded by its cleanup (clearInterval, remove the AppState
\* listener, BluetoothService.disconnect()).
EffectRun(i) ==
  /\ client = "screen" /\ effectPending /\ mounted # "gone"
  /\ FreeCall(i)
  /\ IF mounted = "yes"
     THEN CanDisconnect /\ Disconnect
     ELSE UNCHANGED <<heartbeatInterval, link, pendingDisc, disconnecting, isConnected,
                      connectedDevice, scanSubscription>>
  /\ StartInit(i)
  /\ mounted' = "yes"
  /\ effectPending' = FALSE
  /\ last' = "none"
  /\ UNCHANGED <<candidates, webVars, hcVars, fwVars, matchVars, reply, client, budget, radio, monitored, isInitialized, scanTimers, connTimers, cmdVars,
                 appState, uiIsConnected, vehicleState, isProcessing, reinitTimers,
                 kPc, kDev, kSeen>>

\* await BluetoothService.initialize() resumes; on true autoConnect() is called.
InitDone(i) ==
  /\ cPc[i] = "initializing"
  /\ \E granted \in BOOLEAN :
       LET ok == granted /\ radio = "PoweredOn"
       IN  /\ isInitialized' = (isInitialized \/ ok)
           /\ AutoConnect(i, ok)
  /\ UNCHANGED <<candidates, webVars, hcVars, fwVars, matchVars, reply, client, budget, radio, link, monitored, pendingDisc, isConnected, connectedDevice,
                 heartbeatInterval, connTimers, disconnecting, cmdVars>>

\* the screen goes away: the cleanup of the effect runs for the last time.
Unmount ==
  /\ client = "screen" /\ mounted = "yes"
  /\ CanDisconnect /\ Disconnect
  /\ mounted' = "gone"
  /\ effectPending' = FALSE
  /\ last' = "none"
  /\ Spend /\ UNCHANGED <<candidates, webVars, hcVars, fwVars, matchVars, reply, client, radio, monitored, isInitialized, scanTimers, connTimers, cPc, cDev,
                 cmdVars, appState, uiIsConnected, vehicleState, isProcessing, isSearching,
                 reinitTimers, kPc, kDev, kSeen>>

\* handleAppStateChange('background' | 'inactive')
AppBackground ==
  /\ client = "screen" /\ mounted = "yes" /\ appState = "active"
  /\ CanDisconnect /\ Disconnect
  /\ appState' = "background"
  /\ SetIsConnected(FALSE)
  /\ last' = "none"
  /\ Spend /\ UNCHANGED <<candidates, webVars, hcVars, fwVars, matchVars, reply, client, radio, monitored, isInitialized, scanTimers, connTimers, cPc, cDev,
                 cmdVars, mounted, vehicleState, isProcessing, isSearching, reinitTimers,
                 kPc, kDev, kSeen>>

\* handleAppStateChange('active'): without a session, reconnect in one second.
AppActive ==
  /\ client = "screen" /\ mounted = "yes" /\ appState = "background"
  /\ appState' = "active"
  /\ IF ~CanSend
     THEN reinitTimers < MaxReinit /\ reinitTimers' = reinitTimers + 1
     ELSE UNCHANGED reinitTimers
  /\ last' = "none"
  /\ Spend /\ UNCHANGED <<candidates, webVars, hcVars, fwVars, matchVars, reply, client, bleVars, mounted, uiIsConnected, vehicleState, isProcessing,
                 isSearching, effectPending, kPc, kDev, kSeen>>

ReinitFires(i) ==
  /\ reinitTimers > 0 /\ FreeCall(i)
  /\ reinitTimers' = reinitTimers - 1
  /\ StartInit(i)
  /\ last' = "none"
  /\ UNCHANGED <<candidates, webVars, hcVars, fwVars, matchVars, reply, client, budget, radio, link, monitored, pendingDisc, isInitialized, isConnected,
                 connectedDevice, scanSubscription, heartbeatInterval, scanTimers, connTimers,
                 disconnecting, cmdVars, mounted, appState, uiIsConnected, vehicleState,
                 isProcessing, effectPending, kPc, kDev, kSeen>>

\* the status card is pressed (onRetryConnection; pressable when !isConnected and
\* !isSearching).
TapRetry(i) ==
  /\ client = "screen" /\ mounted = "yes" /\ ~uiIsConnected /\ ~isSearching
  /\ FreeCall(i)
  /\ StartInit(i)
  /\ last' = "none"
  /\ Spend /\ UNCHANGED <<candidates, webVars, hcVars, fwVars, matchVars, reply, client, radio, link, monitored, pendingDisc, isInitialized, isConnected,
                 connectedDevice, scanSubscription, heartbeatInterval, scanTimers, connTimers,
                 disconnecting, cmdVars, mounted, appState, uiIsConnected, vehicleState,
                 isProcessing, effectPending, reinitTimers, kPc, kDev, kSeen>>

\* isDeviceConnectedAsync() found the link down (or the query threw).
LinkDown ==
  /\ isConnected' = FALSE
  /\ connectedDevice' = NoDevice
  /\ heartbeatInterval' = FALSE

\* connectionCheckInterval fires: isDeviceConnectedAsync() answers false at once
\* without a session, else awaits connectedDevice.isConnected().
CheckTick ==
  /\ client = "screen" /\ mounted = "yes" /\ kPc = "idle"
  /\ IF CanSend
     THEN /\ kPc' = "checking" /\ kDev' = connectedDevice /\ kSeen' = uiIsConnected
          /\ UNCHANGED <<uiIsConnected, effectPending>>
     ELSE /\ uiIsConnected
          /\ SetIsConnected(FALSE)
          /\ UNCHANGED <<kPc, kDev, kSeen>>
  /\ last' = "none"
  /\ Spend /\ UNCHANGED <<candidates, webVars, hcVars, fwVars, matchVars, reply, client, bleVars, mounted, appState, vehicleState, isProcessing,
                 isSearching, reinitTimers>>

CheckDone ==
  /\ kPc = "checking"
  /\ \E res \in Answers(kDev) :
       /\ IF res = "yes"
          THEN UNCHANGED <<isConnected, connectedDevice, heartbeatInterval>>
          ELSE LinkDown
       /\ IF (res = "yes") # kSeen
          THEN SetIsConnected(res = "yes")
          ELSE UNCHANGED <<uiIsConnected, effectPending>>
  /\ kPc' = "idle" /\ kDev' = NoDevice /\ kSeen' = FALSE
  /\ last' = "none"
  /\ UNCHANGED <<candidates, webVars, hcVars, fwVars, matchVars, reply, client, budget, radio, link, monitored, pendingDisc, isInitialized,
                 scanSubscription, scanTimers, connTimers, cPc, cDev, disconnecting,
                 cmdVars, mounted, appState, vehicleState, isProcessing, isSearching,
                 reinitTimers>>

\* the state a button asks for; the button is disabled when it is shown already.
Target(a) == IF a = "lock" THEN "locked" ELSE "unlocked"

\* BLOQUEAR / DESBLOQUEAR pressed: handleVehicleAction up to the await inside
\* isDeviceConnectedAsync().
Tap(k, a) ==
  /\ client = "screen" /\ mounted = "yes"
  /\ uiIsConnected /\ ~isProcessing /\ vehicleState # Target(a)
  /\ FreeTap(k)
  /\ IF CanSend
     THEN /\ hPc' = [hPc EXCEPT ![k] = "checking"]
          /\ hDev' = [hDev EXCEPT ![k] = connectedDevice]
          /\ hAct' = [hAct EXCEPT ![k] = a]
          /\ UNCHANGED <<uiIsConnected, effectPending>>
     ELSE /\ SetIsConnected(FALSE)
          /\ UNCHANGED <<hPc, hDev, hAct>>
  /\ last' = "none"
  /\ Spend /\ UNCHANGED <<candidates, webVars, hcVars, fwVars, matchVars, reply, client, radio, link, monitored, pendingDisc, isInitialized, isConnected,
                 connectedDevice, scanSubscription, heartbeatInterval, scanTimers, connTimers,
                 cPc, cDev, disconnecting, bPc, bDev, hbFails, mounted, appState,
                 vehicleState, isProcessing, isSearching, reinitTimers, kPc, kDev, kSeen>>

\* the link check of handleVehicleAction settles: without a link setIsConnected(false);
\* else setIsProcessing(true) and sendCommand(action).
TapChecked(k) ==
  /\ hPc[k] = "checking"
  /\ \E res \in Answers(hDev[k]) :
       IF res # "yes"
       THEN /\ LinkDown
            /\ SetIsConnected(FALSE)
            /\ hPc' = [hPc EXCEPT ![k] = "idle"]
            /\ hDev' = [hDev EXCEPT ![k] = NoDevice]
            /\ hAct' = [hAct EXCEPT ![k] = "none"]
            /\ last' = "none"
            /\ UNCHANGED isProcessing
       ELSE IF CanSend
       THEN /\ hPc' = [hPc EXCEPT ![k] = "writing"]
            /\ hDev' = [hDev EXCEPT ![k] = connectedDevice]
            /\ isProcessing' = IF mounted = "yes" THEN TRUE ELSE isProcessing
            /\ last' = "write_issued"
            /\ UNCHANGED <<isConnected, connectedDevice, heartbeatInterval, hAct,
                           uiIsConnected, effectPending>>
       ELSE \* sendCommand throws: the catch shows an error, finally setIsProcessing(false)
            /\ hPc' = [hPc EXCEPT ![k] = "idle"]
            /\ hDev' = [hDev EXCEPT ![k] = NoDevice]
            /\ hAct' = [hAct EXCEPT ![k] = "none"]
            /\ isProcessing' = IF mounted = "yes" THEN FALSE ELSE isProcessing
            /\ last' = "send_threw"
            /\ UNCHANGED <<isConnected, connectedDevice, heartbeatInterval,
                           uiIsConnected, effectPending>>
  /\ UNCHANGED <<candidates, webVars, hcVars, fwVars, matchVars, reply, client, budget, radio, link, monitored, pendingDisc, isInitialized,
                 scanSubscription, scanTimers, connTimers, cPc, cDev, disconnecting,
                 bPc, bDev, hbFails, mounted, appState, vehicleState, isSearching,
                 reinitTimers, kPc, kDev, kSeen>>

\* ------------------------------------- HC06BluetoothServiceClass (native)
\* The HC-06 build: HC06BluetoothService.native.ts driven by the useHC06Bluetooth
\* hook and the HC-06 MainScreen. It uses connectedDevice, link, cPc, disconnecting,
\* hPc, hAct and the screen's state; the rest belongs to the BLE build.
\* the one device named TARGET_DEVICE_NAME
Receiver == 1

bleOnly == <<monitored, pendingDisc, isInitialized, isConnected, scanSubscription,
             heartbeatInterval, scanTimers, connTimers, cDev, hDev, bPc, bDev, hbFails,
             mounted, appState, isSearching, effectPending, reinitTimers, kPc, kDev, kSeen,
             connectionListeners, seen, kind, delivered, candidates, reply, fwVars, matchVars>>

\* the hook's state after its setters ran
Hook(conn, connecting, err) ==
  /\ uiIsConnected' = conn
  /\ isConnecting' = connecting
  /\ hookError' = err

\* whether the for loop has another iteration after attempt number attempt[c]:
\* attempt++ and then attempt <= MAX_RETRY_ATTEMPTS
MoreAttemptsOff(c) == attempt[c] <= MAX_RETRY_ATTEMPTS
MoreAttempts(c) == attempt[c] < MAX_RETRY_ATTEMPTS

\* the next iteration of the retry loop: attemptConnection(device) arms the
\* connection timeout and calls Bluetooth.connectToDeviceAsync; lk is the link so far.
TryAgain(c, lk) ==
  /\ cPc' = [cPc EXCEPT ![c] = "attempting"]
  /\ attempt' = [attempt EXCEPT ![c] = @ + 1]
  /\ issued' = [issued EXCEPT ![c] = @ + 1]
  /\ link' = [lk EXCEPT ![Receiver] = IF @ = "closed" THEN "connecting" ELSE @]
  /\ last' = "adapter_connect"

\* the outer catch of connectToCommandReceiver: notify {isConnected: false, device:
\* null, error}, return false; the hook's connect then sets its error too.
GiveUp(c) ==
  /\ cPc' = [cPc EXCEPT ![c] = "idle"]
  /\ Hook(FALSE, FALSE, TRUE)
  /\ last' = "connect_failed"
  /\ UNCHANGED <<attempt, issued>>

\* handleConnect of the screen: clearError, hook.connect (setError(null),
\* setIsConnecting(true)), connectToCommandReceiver up to its first await inside
\* findInPairedDevices.
HcConnect(c) ==
  /\ client = "hc06" /\ FreeCall(c) /\ Spend
  /\ cPc' = [cPc EXCEPT ![c] = "paired"]
  /\ attempt' = [attempt EXCEPT ![c] = 0]
  /\ issued' = [issued EXCEPT ![c] = 0]
  /\ isScanning' = TRUE
  /\ Hook(uiIsConnected, TRUE, FALSE)
  /\ last' = "none"
  /\ UNCHANGED <<client, radio, link, connectedDevice, disconnecting, hPc, hAct,
                 vehicleState, isProcessing, bleOnly>>

\* getBondedDevicesAsync settles: a paired Command-Receiver starts the retry loop
\* (isScanning stays set), else scanForDevice starts a scan.
HcPaired(c) ==
  /\ cPc[c] = "paired"
  /\ \E found \in BOOLEAN :
       IF found
       THEN TryAgain(c, link)
       ELSE /\ cPc' = [cPc EXCEPT ![c] = "scanning"]
            /\ last' = "scan_started"
            /\ UNCHANGED <<attempt, issued, link>>
  /\ UNCHANGED <<client, budget, radio, connectedDevice, disconnecting, hPc, hAct,
                 uiIsConnected, vehicleState, isProcessing, isScanning, isConnecting,
                 hookError, bleOnly>>

\* onDeviceFound with the target's name: the scan stops and the loop starts.
HcScanFound(c) ==
  /\ cPc[c] = "scanning" /\ radio = "PoweredOn"
  /\ isScanning' = FALSE
  /\ TryAgain(c, link)
  /\ UNCHANGED <<client, budget, radio, connectedDevice, disconnecting, hPc, hAct,
                 uiIsConnected, vehicleState, isProcessing, isConnecting, hookError,
                 bleOnly>>

\* the scan times out or reports an error: no device, the call fails.
HcScanEnd(c) ==
  /\ cPc[c] = "scanning"
  /\ isScanning' = FALSE
  /\ GiveUp(c)
  /\ UNCHANGED <<client, budget, radio, link, connectedDevice, disconnecting, hPc, hAct,
                 vehicleState, isProcessing, bleOnly>>

\* onConnected: resolve(true), break; connectedDevice is set, subscribers are told,
\* true is returned and handleConnect sets the vehicle state to 'locked'.
HcOnConnected(c) ==
  /\ cPc[c] = "attempting" /\ radio = "PoweredOn"
  /\ link' = [link EXCEPT ![Receiver] = "open"]
  /\ connectedDevice' = Receiver
  /\ cPc' = [cPc EXCEPT ![c] = "idle"]
  /\ Hook(TRUE, FALSE, hookError)
  /\ vehicleState' = "locked"
  /\ last' = "connect_ok"
  /\ UNCHANGED <<client, budget, radio, disconnecting, hPc, hAct, isProcessing,
                 isScanning, attempt, issued, bleOnly>>

\* onDisconnected during an attempt: handleDisconnection(), resolve(false); the loop
\* goes on at once with the next attempt, or ends.
HcOnDisconnected(c) ==
  /\ cPc[c] = "attempting"
  /\ connectedDevice' = NoDevice
  /\ IF MoreAttempts(c)
     THEN /\ TryAgain(c, [link EXCEPT ![Receiver] = "closed"])
          /\ Hook(FALSE, FALSE, hookError)
     ELSE /\ GiveUp(c)
          /\ link' = [link EXCEPT ![Receiver] = "closed"]
  /\ UNCHANGED <<client, budget, radio, disconnecting, hPc, hAct, vehicleState,
                 isProcessing, isScanning, bleOnly>>

\* attemptConnection rejects: the catch waits delay(2000) before the next attempt,
\* and after the last attempt the call fails.
Rejected(c) ==
  IF MoreAttempts(c)
  THEN /\ cPc' = [cPc EXCEPT ![c] = "backoff"]
       /\ last' = "none"
       /\ UNCHANGED <<attempt, issued, uiIsConnected, isConnecting, hookError>>
  ELSE GiveUp(c)

\* onError of the adapter
HcOnError(c) ==
  /\ cPc[c] = "attempting"
  /\ link' = [link EXCEPT ![Receiver] = "closed"]
  /\ Rejected(c)
  /\ UNCHANGED <<client, budget, radio, connectedDevice, disconnecting, hPc, hAct,
                 vehicleState, isProcessing, isScanning, bleOnly>>

\* connectionTimeout fires; the adapter is not told to stop.
HcTimeout(c) ==
  /\ cPc[c] = "attempting"
  /\ Rejected(c)
  /\ UNCHANGED <<client, budget, radio, link, connectedDevice, disconnecting, hPc, hAct,
                 vehicleState, isProcessing, isScanning, bleOnly>>

\* delay(2000) is over
HcBackoffDone(c) ==
  /\ cPc[c] = "backoff"
  /\ TryAgain(c, link)
  /\ UNCHANGED <<client, budget, radio, connectedDevice, disconnecting, hPc, hAct,
                 uiIsConnected, vehicleState, isProcessing, isScanning, isConnecting,
                 hookError, bleOnly>>

\* the adapter completes a connect whose attempt has timed out already: its
\* onConnected resolves a settled promise.
HcLateConnected ==
  /\ client = "hc06" /\ link[Receiver] = "connecting" /\ radio = "PoweredOn"
  /\ \A c \in Calls : cPc[c] # "attempting"
  /\ link' = [link EXCEPT ![Receiver] = "open"]
  /\ last' = "none"
  /\ UNCHANGED <<client, budget, radio, connectedDevice, cPc, disconnecting, hPc, hAct,
                 uiIsConnected, vehicleState, isProcessing, hcVars, bleOnly>>

\* handleDisconnection(): connectedDevice = null, notify {isConnected: false}
HandleDisconnection ==
  /\ connectedDevice' = NoDevice
  /\ Hook(FALSE, FALSE, hookError)

\* the open link is lost: the onDisconnected callback of the attempt that opened
\* it runs.
HcDrop ==
  /\ client = "hc06" /\ link[Receiver] = "open" /\ Spend
  /\ link' = [link EXCEPT ![Receiver] = "closed"]
  /\ HandleDisconnection
  /\ last' = "notified_down"
  /\ UNCHANGED <<client, radio, cPc, disconnecting, hPc, hAct, vehicleState, isProcessing,
                 isScanning, attempt, issued, bleOnly>>

HcRadioOff ==
  /\ client = "hc06" /\ radio = "PoweredOn" /\ Spend
  /\ radio' = "PoweredOff"
  /\ link' = [link EXCEPT ![Receiver] = "closed"]
  /\ IF link[Receiver] = "open"
     THEN HandleDisconnection /\ last' = "notified_down"
     ELSE UNCHANGED <<connectedDevice, uiIsConnected, isConnecting, hookError>>
          /\ last' = "none"
  /\ UNCHANGED <<client, cPc, disconnecting, hPc, hAct, vehicleState, isProcessing,
                 isScanning, attempt, issued, bleOnly>>

HcRadioOn ==
  /\ client = "hc06" /\ radio = "PoweredOff" /\ Spend
  /\ radio' = "PoweredOn"
  /\ last' = "none"
  /\ UNCHANGED <<client, link, connectedDevice, cPc, disconnecting, hPc, hAct,
                 uiIsConnected, vehicleState, isProcessing, hcVars, bleOnly>>

\* handleDisconnect of the screen: hook.disconnect (setError(null)), then
\* service.disconnect(): with a connected device it awaits
\* disconnectFromDeviceAsync, else it returns and setVehicleState('unknown') runs.
HcDisconnect ==
  /\ client = "hc06" /\ Spend
  /\ IF connectedDevice # NoDevice
     THEN /\ disconnecting < MaxDisc
          /\ disconnecting' = disconnecting + 1
          /\ last' = "adapter_cancel"
          /\ UNCHANGED vehicleState
     ELSE /\ vehicleState' = "unknown"
          /\ last' = "disconnect_returned"
          /\ UNCHANGED disconnecting
  /\ hookError' = FALSE
  /\ UNCHANGED <<client, radio, link, connectedDevice, cPc, hPc, hAct, uiIsConnected,
                 isProcessing, isScanning, attempt, issued, isConnecting, bleOnly>>

\* disconnectFromDeviceAsync settles: handleDisconnection(), or the catch that only
\* logs; then handleDisconnect goes on.
HcDisconnectDone ==
  /\ client = "hc06" /\ disconnecting > 0
  /\ disconnecting' = disconnecting - 1
  /\ \E threw \in BOOLEAN :
       IF threw
       THEN UNCHANGED <<link, connectedDevice, uiIsConnected, isConnecting, hookError>>
       ELSE /\ link' = [link EXCEPT ![Receiver] = "closed"]
            /\ HandleDisconnection
  /\ vehicleState' = "unknown"
  /\ last' = "disconnect_returned"
  /\ UNCHANGED <<client, budget, radio, cPc, hPc, hAct, isProcessing, isScanning,
                 attempt, issued, bleOnly>>

\* a command: LOCK / UNLOCK from handleVehicleAction (hook.sendCommand ->
\* sendSerialCommand), or STATUS through hook.sendCommandAndWaitResponse.
\* sendSerialCommand throws without a connected device, else awaits writeAsync.
HcSend(k, a) ==
  /\ client = "hc06" /\ FreeTap(k) /\ Spend
  /\ a # "status" => uiIsConnected /\ ~isProcessing /\ vehicleState # Target(a)
  /\ IF connectedDevice # NoDevice
     THEN /\ hPc' = [hPc EXCEPT ![k] = "writing"]
          /\ hAct' = [hAct EXCEPT ![k] = a]
          /\ hookError' = FALSE
          /\ isProcessing' = IF a = "status" THEN isProcessing ELSE TRUE
          /\ last' = "write_issued"
     ELSE /\ hookError' = TRUE
          /\ last' = "send_threw"
          /\ UNCHANGED <<hPc, hAct, isProcessing>>
  /\ UNCHANGED <<client, radio, link, connectedDevice, cPc, disconnecting, uiIsConnected,
                 vehicleState, isScanning, attempt, issued, isConnecting, bleOnly>>

EndCommand(k) ==
  /\ hPc' = [hPc EXCEPT ![k] = "idle"]
  /\ hAct' = [hAct EXCEPT ![k] = "none"]

\* writeAsync resolves: sendSerialCommand returns true; the screen shows the new
\* vehicle state, sendCommandAndWaitResponse goes on to readSerialResponse.
HcWriteOk(k) ==
  /\ client = "hc06" /\ hPc[k] = "writing" /\ link[Receiver] = "open"
  /\ IF hAct[k] # "status"
     THEN /\ EndCommand(k)
          /\ vehicleState' = Target(hAct[k])
          /\ isProcessing' = FALSE
          /\ last' = "none"
          /\ UNCHANGED hookError
     ELSE IF connectedDevice # NoDevice
     THEN /\ hPc' = [hPc EXCEPT ![k] = "reading"]
          /\ last' = "read_issued"
          /\ UNCHANGED <<hAct, vehicleState, isProcessing, hookError>>
     ELSE /\ EndCommand(k)
          /\ hookError' = TRUE
          /\ last' = "send_threw"
          /\ UNCHANGED <<vehicleState, isProcessing>>
  /\ UNCHANGED <<client, budget, radio, link, connectedDevice, cPc, disconnecting,
                 uiIsConnected, isScanning, attempt, issued, isConnecting, bleOnly>>

\* writeAsync rejects: sendSerialCommand rethrows, the hook records the error.
HcWriteFail(k) ==
  /\ client = "hc06" /\ hPc[k] = "writing"
  /\ EndCommand(k)
  /\ hookError' = TRUE
  /\ isProcessing' = IF hAct[k] = "status" THEN isProcessing ELSE FALSE
  /\ last' = "write_failed"
  /\ UNCHANGED <<client, budget, radio, link, connectedDevice, cPc, disconnecting,
                 uiIsConnected, vehicleState, isScanning, attempt, issued, isConnecting,
                 bleOnly>>

\* readAsync wins the race of readSerialResponse.
HcReadOk(k) ==
  /\ client = "hc06" /\ hPc[k] = "reading" /\ link[Receiver] = "open"
  /\ EndCommand(k)
  /\ last' = "none"
  /\ UNCHANGED <<client, budget, radio, link, connectedDevice, cPc, disconnecting,
                 uiIsConnected, vehicleState, isProcessing, hcVars, bleOnly>>

\* a read timeout taken for the loss of the connection
HcReadTimeoutDrops(k) ==
  /\ client = "hc06" /\ hPc[k] = "reading"
  /\ EndCommand(k)
  /\ connectedDevice' = NoDevice
  /\ uiIsConnected' = FALSE
  /\ hookError' = TRUE
  /\ last' = "read_timeout"
  /\ UNCHANGED <<client, budget, radio, link, cPc, disconnecting, vehicleState,
                 isProcessing, isScanning, attempt, issued, isConnecting, bleOnly>>

\* delay(timeout) wins the race (or readAsync rejects): the hook records the error.
HcReadTimeout(k) ==
  /\ client = "hc06" /\ hPc[k] = "reading"
  /\ EndCommand(k)
  /\ hookError' = TRUE
  /\ last' = "read_timeout"
  /\ UNCHANGED <<client, budget, radio, link, connectedDevice, cPc, disconnecting,
                 uiIsConnected, vehicleState, isProcessing, isScanning, attempt, issued,
                 isConnecting, bleOnly>>

\* ----------------------------- HC06BluetoothServiceClass (web implementation)
webFrame == <<radio, link, cPc, disconnecting, hPc, hAct, uiIsConnected, vehicleState,
              isProcessing, hcVars, monitored, pendingDisc, isInitialized, isConnected,
              scanSubscription, heartbeatInterval, scanTimers, connTimers, cDev, hDev,
              bPc, bDev, hbFails, mounted, appState, isSearching, effectPending,
              reinitTimers, kPc, kDev, kSeen, candidates, reply, fwVars, matchVars>>

\* the unsubscribe function: indexOf(callback), then splice(index, 1) if found.
Splice(listeners, s) ==
  LET at == {n \in 1..Len(listeners) : listeners[n] = s}
  IN  IF at = {} THEN listeners
      ELSE LET index == CHOOSE n \in at : \A o \in at : n <= o
           IN  [n \in 1..(Len(listeners) - 1) |->
                  IF n < index THEN listeners[n] ELSE listeners[n + 1]]

\* connectionListeners.forEach(callback => try { callback(status) } catch {...}):
\* forEach visits the indices below the length the array had at the start, each
\* if the array still has it when its turn comes; what a callback throws is caught
\* and logged. k is the index to visit, n the length at the start, called the
\* callbacks called so far.
RECURSIVE ForEach(_, _, _, _)
ForEach(listeners, k, n, called) ==
  IF k > n THEN [listeners |-> listeners, called |-> called]
  ELSE IF k > Len(listeners) THEN ForEach(listeners, k + 1, n, called)
  ELSE LET callback == listeners[k]
           after == IF kind[callback] = "once" THEN Splice(listeners, callback)
                    ELSE listeners
       IN  ForEach(after, k + 1, n, Append(called, callback))

\* notifyConnectionChange(status)
NotifyConnectionChange(status) ==
  LET done == ForEach(connectionListeners, 1, Len(connectionListeners), <<>>)
  IN  /\ delivered' = done.called
      /\ connectionListeners' = done.listeners
      /\ seen' = [s \in Subs |->
                    IF \E n \in 1..Len(done.called) : done.called[n] = s
                    THEN status ELSE seen[s]]

\* onConnectionChange(callback)
WebSubscribe(s) ==
  /\ client = "web" /\ Spend
  /\ \A n \in 1..Len(connectionListeners) : connectionListeners[n] # s
  /\ \E does \in Kinds :
       kind' = [kind EXCEPT ![s] = does]
  /\ connectionListeners' = Append(connectionListeners, s)
  /\ last' = "none"
  /\ UNCHANGED <<client, connectedDevice, seen, delivered, webFrame>>

\* the function onConnectionChange returned is called
WebUnsubscribe(s) ==
  /\ client = "web" /\ Spend
  /\ \E n \in 1..Len(connectionListeners) : connectionListeners[n] = s
  /\ connectionListeners' = Splice(connectionListeners, s)
  /\ last' = "none"
  /\ UNCHANGED <<client, connectedDevice, seen, kind, delivered, webFrame>>

\* initialize() and connectToCommandReceiver(): notify an error, return false.
WebConnect ==
  /\ client = "web" /\ Spend
  /\ NotifyConnectionChange("error")
  /\ last' = "connect_failed"
  /\ UNCHANGED <<client, connectedDevice, kind, webFrame>>

\* sendSerialCommand / readSerialResponse / sendCommandAndWaitResponse throw.
WebSend ==
  /\ client = "web" /\ Spend
  /\ last' = "send_threw"
  /\ UNCHANGED <<client, connectedDevice, webVars, webFrame>>

\* disconnect(): handleDisconnection() whatever the state.
WebDisconnect ==
  /\ client = "web" /\ Spend
  /\ connectedDevice' = NoDevice
  /\ NotifyConnectionChange("down")
  /\ last' = "disconnect_returned"
  /\ UNCHANGED <<client, kind, webFrame>>

\* ------------------------------------------ the actuator (test-bluetooth.js)
fwFrame == <<client, last, bleVars, uiVars, hcVars, webVars, matchVars, candidates, reply>>

\* commandMap of sendCommand: what the client writes for a command
Wire(a) == IF a = "lock" THEN "LOCK" ELSE IF a = "unlock" THEN "UNLOCK" ELSE "STATUS"

\* processCommand(command): the response written to txCharacteristic and the lock
\* state afterwards (unlockVehicle does nothing without an active connection).
processCommand(command, locked, active) ==
  IF command = "LOCK" THEN [response |-> "LOCKED", locked |-> TRUE]
  ELSE IF command = "UNLOCK"
       THEN [response |-> "UNLOCKED", locked |-> IF active THEN FALSE ELSE locked]
  ELSE IF command = "STATUS"
       THEN [response |-> IF locked THEN "LOCKED" ELSE "UNLOCKED", locked |-> locked]
  ELSE [response |-> "UNKNOWN_COMMAND", locked |-> locked]

\* the rest of an iteration of the connected loop in which command was written:
\* lastCommandTime = currentTime, processCommand, the timeout check (not due), the
\* firmware's own heartbeat message when due, delay(100).
Written(command) ==
  LET done == processCommand(command, vehicleIsLocked, connectionActive)
      beat == sinceFwBeat > FW_HEARTBEAT_INTERVAL
  IN  /\ vehicleIsLocked' = done.locked
      /\ txValue' = IF ~beat THEN done.response
                    ELSE IF done.locked THEN "HEARTBEAT_LOCKED" ELSE "HEARTBEAT_UNLOCKED"
      /\ rxValue' = IF beat THEN "none" ELSE command
      /\ sinceCommand' = LOOP_DELAY
      /\ sinceFwBeat' = IF beat THEN LOOP_DELAY ELSE sinceFwBeat + LOOP_DELAY

\* BLE.central() gives a central: connectionActive = true, both timers reset. The
\* client starts its heartbeat interval on connecting.
FwConnect ==
  /\ client = "firmware" /\ ~connectionActive /\ Spend
  /\ connectionActive' = TRUE
  /\ sinceCommand' = 0 /\ sinceFwBeat' = 0 /\ sinceHeartbeat' = 0
  /\ UNCHANGED <<vehicleIsLocked, txValue, rxValue, fwFrame>>

\* the user's command arrives: an iteration that finds rxCharacteristic written.
FwCommand(a) ==
  /\ client = "firmware" /\ connectionActive /\ Spend
  /\ sinceCommand <= FW_CONNECTION_TIMEOUT
  /\ sinceHeartbeat < HEARTBEAT_INTERVAL
  /\ Written(a)
  /\ sinceHeartbeat' = sinceHeartbeat + LOOP_DELAY
  /\ UNCHANGED <<connectionActive, fwFrame>>

\* the client's heartbeat interval fires and its STATUS arrives at once.
FwHeartbeat ==
  /\ client = "firmware" /\ connectionActive
  /\ sinceCommand <= FW_CONNECTION_TIMEOUT
  /\ sinceHeartbeat = HEARTBEAT_INTERVAL
  /\ Written(Wire("status"))
  /\ sinceHeartbeat' = LOOP_DELAY
  /\ UNCHANGED <<connectionActive, budget, fwFrame>>

\* an iteration of the connected loop with nothing written and no timeout.
FwTick ==
  /\ client = "firmware" /\ connectionActive
  /\ sinceCommand <= FW_CONNECTION_TIMEOUT
  /\ sinceHeartbeat < HEARTBEAT_INTERVAL
  /\ LET beat == sinceFwBeat > FW_HEARTBEAT_INTERVAL
     IN  /\ txValue' = IF ~beat THEN txValue
                       ELSE IF vehicleIsLocked THEN "HEARTBEAT_LOCKED"
                            ELSE "HEARTBEAT_UNLOCKED"
         /\ rxValue' = IF beat THEN "none" ELSE rxValue
         /\ sinceFwBeat' = IF beat THEN LOOP_DELAY ELSE sinceFwBeat + LOOP_DELAY
  /\ sinceCommand' = sinceCommand + LOOP_DELAY
  /\ sinceHeartbeat' = sinceHeartbeat + LOOP_DELAY
  /\ UNCHANGED <<connectionActive, vehicleIsLocked, budget, fwFrame>>

\* currentTime - lastCommandTime > CONNECTION_TIMEOUT: central.disconnect(), break;
\* connectionActive = false, lockVehicle(), the timers are reset.
FwTimeout ==
  /\ client = "firmware" /\ connectionActive
  /\ sinceCommand > FW_CONNECTION_TIMEOUT
  /\ connectionActive' = FALSE
  /\ vehicleIsLocked' = TRUE
  /\ sinceCommand' = 0 /\ sinceFwBeat' = 0 /\ sinceHeartbeat' = 0
  /\ UNCHANGED <<txValue, rxValue, budget, fwFrame>>

\* --------------------------------------------- the matchers on a scan result
matchFrame == <<client, budget, last, bleVars, uiVars, hcVars, webVars, fwVars, candidates,
                reply, scanned>>

\* autoConnect after scanDevices: the filtered, sorted list and its first entry
FilterDevices ==
  /\ client = "matcher" /\ "filter" \notin matcherRan
  /\ matchedDevices' = filterVehicleDevices(scanned)
  /\ matchedBest' = BestOf(scanned)
  /\ matcherRan' = matcherRan \cup {"filter"}
  /\ UNCHANGED <<identified, matchFrame>>

\* autoConnect of the stub service after scanDevices
IdentifyDevice ==
  /\ client = "matcher" /\ "identify" \notin matcherRan
  /\ identified' = identifyVehicleDevice(scanned)
  /\ matcherRan' = matcherRan \cup {"identify"}
  /\ UNCHANGED <<matchedDevices, matchedBest, matchFrame>>

\* ------------------------------------------------------------ specifications
\* The service's connection methods called in any order by a client of its API.
ApiCalls(C, D) ==
  \/ ApiInitialize
  \/ \E i \in C : ApiAutoConnect(i)
  \/ \E i \in C, d \in D : ApiConnectToDevice(i, d)
  \/ ApiDisconnect

ApiCommands == \E k \in Taps, a \in {"lock", "unlock", "status"} : ApiSendCommand(k, a)

\* What the adapter, the timers and the resumed async methods do, with the calls C
\* and the devices D in range.
Lifecycle(C, D) ==
  \/ \E i \in C : ScanTimeout(i, Around(D))
  \/ \E i \in C : ScanError(i)
  \/ \E i \in C : ConnectOk(i)
  \/ \E i \in C : ConnectFail(i)
  \/ \E i \in C : ConnectTimeout(i)
  \/ StaleTimerFires
  \/ \E d \in D : AdapterLate(d)
  \/ \E i \in C : DiscoverOk(i)
  \/ \E i \in C : DiscoverFail(i)
  \/ DisconnectDone
  \/ \E d \in D : AdapterDrop(d)
  \/ RadioOff
  \/ RadioOn
  \/ \E d \in D : OnDisconnected(d)

Commands ==
  \/ \E k \in Taps : WriteOk(k)
  \/ \E k \in Taps : WriteFail(k)
  \/ \E b \in Beats : HeartbeatTick(b)
  \/ \E b \in Beats : HeartbeatChecked(b)
  \/ \E b \in Beats : HeartbeatWritten(b)

Screen(C) ==
  \/ \E i \in C : EffectRun(i)
  \/ \E i \in C : InitDone(i)
  \/ Unmount
  \/ AppBackground
  \/ AppActive
  \/ \E i \in C : ReinitFires(i)
  \/ \E i \in C : TapRetry(i)
  \/ CheckTick
  \/ CheckDone
  \/ \E k \in Taps, a \in {"lock", "unlock"} : Tap(k, a)
  \/ \E k \in Taps : TapChecked(k)

OneCall == {1}
OneDevice == {1}

InitApi ==
  /\ client = "api" /\ budget = MaxEvents /\ last = "none"
  /\ InitBle /\ InitUi /\ InitHc /\ InitFw /\ InitMatch /\ scanned = <<>>

\* the connection lifecycle under concurrent calls of the API
NextBle ==
  \/ ApiCalls(Calls, Devices) \/ Lifecycle(Calls, Devices)
  \/ \E i \in Calls : CancelDone(i)

SpecBle == InitApi /\ [][NextBle]_vars

\* commands and the heartbeat over a session opened by one call at a time
NextCmd ==
  \/ ApiCalls(OneCall, OneDevice) \/ ApiCommands
  \/ Lifecycle(OneCall, OneDevice) \/ Commands

SpecCmd == InitApi /\ [][NextCmd]_vars

\* the main screen driving the service
InitScreen ==
  /\ client = "screen" /\ budget = MaxUiEvents /\ last = "none" /\ InitBle /\ InitHc
  /\ InitFw /\ InitMatch /\ scanned = <<>>
  /\ mounted = "no" /\ appState = "active" /\ uiIsConnected = FALSE
  /\ vehicleState = "unknown" /\ isProcessing = FALSE /\ isSearching = FALSE
  /\ effectPending = TRUE /\ reinitTimers = 0
  /\ kPc = "idle" /\ kDev = NoDevice /\ kSeen = FALSE

NextScreen == Screen(OneCall) \/ Lifecycle(OneCall, OneDevice) \/ Commands

SpecScreen == InitScreen /\ [][NextScreen]_vars

\* the HC-06 build
Hc06 ==
  \/ \E c \in Calls : HcConnect(c)
  \/ \E c \in Calls : HcPaired(c)
  \/ \E c \in Calls : HcScanFound(c)
  \/ \E c \in Calls : HcScanEnd(c)
  \/ \E c \in Calls : HcOnConnected(c)
  \/ \E c \in Calls : HcOnDisconnected(c)
  \/ \E c \in Calls : HcOnError(c)
  \/ \E c \in Calls : HcTimeout(c)
  \/ \E c \in Calls : HcBackoffDone(c)
  \/ HcLateConnected
  \/ HcDrop
  \/ HcRadioOff
  \/ HcRadioOn
  \/ HcDisconnect
  \/ HcDisconnectDone
  \/ \E k \in Taps, a \in {"lock", "unlock", "status"} : HcSend(k, a)
  \/ \E k \in Taps : HcWriteOk(k)
  \/ \E k \in Taps : HcWriteFail(k)
  \/ \E k \in Taps : HcReadOk(k)
  \/ \E k \in Taps : HcReadTimeout(k)

InitHc06 ==
  /\ client = "hc06" /\ budget = MaxEvents /\ last = "none"
  /\ InitBle /\ InitHc /\ InitFw /\ InitMatch /\ scanned = <<>>
  /\ mounted = "yes" /\ appState = "active" /\ uiIsConnected = FALSE
  /\ vehicleState = "unknown" /\ isProcessing = FALSE /\ isSearching = FALSE
  /\ effectPending = FALSE /\ reinitTimers = 0
  /\ kPc = "idle" /\ kDev = NoDevice /\ kSeen = FALSE

NextHc06 == Hc06

SpecHc06 == InitHc06 /\ [][NextHc06]_vars

\* the web implementation of the HC-06 service with its subscribers
InitWeb ==
  /\ client = "web" /\ budget = MaxEvents /\ last = "none"
  /\ InitBle /\ InitHc /\ InitUi /\ InitFw /\ InitMatch /\ scanned = <<>>

NextWeb ==
  \/ \E s \in Subs : WebSubscribe(s)
  \/ \E s \in Subs : WebUnsubscribe(s)
  \/ WebConnect
  \/ WebSend
  \/ WebDisconnect

SpecWeb == InitWeb /\ [][NextWeb]_vars

\* the firmware with one central: the client's commands and heartbeat over time
InitFirmware ==
  /\ client = "firmware" /\ budget = MaxFwEvents /\ last = "none"
  /\ InitBle /\ InitHc /\ InitUi /\ InitFw /\ InitMatch /\ scanned = <<>>

NextFw ==
  \/ FwConnect
  \/ \E a \in Lines : FwCommand(a)
  \/ FwHeartbeat
  \/ FwTick
  \/ FwTimeout

SpecFw == InitFirmware /\ [][NextFw]_vars

\* the matchers applied to every scan result of up to MaxScan devices
InitMatcher ==
  /\ client = "matcher" /\ budget = 0 /\ last = "none"
  /\ InitBle /\ InitHc /\ InitUi /\ InitFw /\ InitMatch /\ scanned \in AnyScans

NextMatch ==
  \/ FilterDevices
  \/ IdentifyDevice

SpecMatch == InitMatcher /\ [][NextMatch]_vars

\* the timers of the HC-06 service always fire; the adapter owes nothing
HcTimers ==
  \/ \E c \in Calls : HcTimeout(c)
  \/ \E c \in Calls : HcBackoffDone(c)
  \/ \E k \in Taps : HcReadTimeout(k)

SpecHc06Fair == SpecHc06 /\ WF_vars(HcTimers)

\* ------------------------------------------------------------------ properties
\* C1: once the device is found, one connectToCommandReceiver call invokes the
\* adapter's connect at most MAX_RETRY_ATTEMPTS times, and the step that ends a
\* failed last attempt leaves the call finished with no further invocation, the
\* subscribers told isConnected = false and an error recorded.
C1_RetryBound ==
  /\ [](\A c \in Calls : issued[c] <= MAX_RETRY_ATTEMPTS /\ issued[c] = attempt[c])
  /\ [][\A c \in Calls :
          (cPc[c] = "attempting" /\ attempt[c] = MAX_RETRY_ATTEMPTS
             /\ cPc'[c] # "attempting" /\ connectedDevice' = NoDevice)
          => /\ cPc'[c] = "idle" /\ issued'[c] = issued[c]
             /\ last' = "connect_failed" /\ ~uiIsConnected' /\ hookError']_vars

C1_Exhausted ==
  \E c \in Calls :
    /\ issued[c] = MAX_RETRY_ATTEMPTS /\ cPc[c] = "idle"
    /\ last = "connect_failed" /\ ~uiIsConnected /\ hookError

\* C2: at most one command write of the user is outstanding at a time.
C2_OneCommandOutstanding == Cardinality({k \in Taps : hPc[k] = "writing"}) <= 1

\* C3: every command whose write was issued is resolved in the end, whatever the
\* adapter does.
C3_CommandResolves == \A k \in Taps : (hPc[k] = "writing") ~> (hPc[k] = "idle")

\* C4: after two consecutive failed keep-alive probes the session is not connected.
C4_TwoFailedProbes == hbFails >= 2 => ~isConnected

\* C5: while the screen does not show a connection, the vehicle state it shows is
\* unknown.
C5_UnknownUnlessConnected ==
  (mounted = "yes" /\ ~uiIsConnected) => vehicleState = "unknown"

\* C6: at most one link is open, and an open link is the one the service references
\* or the one a connect call in progress is opening.
C6_SingleSession ==
  /\ Cardinality({d \in Devices : link[d] = "open"}) <= 1
  /\ \A d \in Devices :
       link[d] = "open" =>
         \/ connectedDevice = d
         \/ \E i \in Calls : cPc[i] \in {"connecting", "discovering"} /\ cDev[i] = d

\* C7: a disconnect() made while a connect call waits, in its backoff or on the
\* adapter, leaves no connect call waiting when it returns.
C7_DisconnectPreempts ==
  [][(/\ \E c \in Calls : cPc[c] \in {"attempting", "backoff"}
       /\ budget' < budget /\ last' = "disconnect_returned")
       => \A c \in Calls : cPc'[c] = "idle"]_vars

\* C8: disconnect() without a connected device calls no subscriber.
C8_IdleDisconnectSilent ==
  [][(connectedDevice = NoDevice /\ last' = "disconnect_returned") => seen' = seen]_vars

\* C9: once disconnect() has returned and no connect call is running, the service is
\* not connected, holds no device and no heartbeat, and no scan or connection timer
\* is pending.
C9_AfterDisconnect ==
  (last = "disconnect_returned" /\ \A i \in Calls : cPc[i] = "idle")
    => /\ ~isConnected /\ connectedDevice = NoDevice /\ ~heartbeatInterval
       /\ scanTimers = 0 /\ connTimers = 0

\* C10: a call made while the radio is off starts no scan.
C10_RadioOffRefused ==
  [][(radio = "PoweredOff" /\ budget' < budget) => last' # "scan_started"]_vars

\* C11: an autoConnect call whose scan gave no vehicle device ends there, returning
\* false: the step starts no adapter connect, arms no connection timer and leaves
\* the connection as it was.
C11_NoMatchNoConnect ==
  [][\A i \in Calls :
       (cPc[i] = "scanning" /\ cPc'[i] # "scanning" /\ candidates'[i].vehicle = 0)
       => /\ cPc'[i] = "idle" /\ last' # "adapter_connect"
          /\ link' = link /\ connTimers' = connTimers
          /\ isConnected' = isConnected /\ connectedDevice' = connectedDevice]_vars

C11_ForeignOnly ==
  \E i \in Calls :
    /\ candidates[i].devices > 0 /\ candidates[i].vehicle = 0
    /\ cPc[i] = "idle" /\ last = "no_match" /\ \A d \in Devices : link[d] = "closed"

\* C12: the step in which subscribers come to see isConnected = true is the arrival
\* of the reply to a probe sent over the new link.
C12_ValidatedBeforeConnected ==
  [][(~uiIsConnected /\ uiIsConnected')
       => \E k \in Taps : hPc[k] = "reading" /\ hPc'[k] = "idle"]_vars

\* C13: whenever the service reports connected, connectedDevice is set and the link
\* to it is open, or its loss is a disconnection event the adapter has yet to hand
\* to the service's onDisconnected listener.
C13_ConnectedHasDevice ==
  isConnected => /\ connectedDevice # NoDevice
                 /\ \/ link[connectedDevice] = "open"
                    \/ connectedDevice \in pendingDisc

C13_LossInFlight ==
  /\ isConnected /\ connectedDevice # NoDevice
  /\ link[connectedDevice] = "closed" /\ connectedDevice \in pendingDisc

\* C13 as stated: whenever the service reports connected, connectedDevice is set and
\* the link to it is open.
C13_ConnectedLinkOpen ==
  isConnected => (connectedDevice # NoDevice /\ link[connectedDevice] = "open")

\* C14: a notifyConnectionChange calls every callback subscribed at that moment
\* once, in the order of subscription.
C14_EachOnceInOrder ==
  [][last' \in {"connect_failed", "disconnect_returned"}
       => delivered' = connectionListeners]_vars

\* C15: when the scan of an autoConnect call holds a vehicle device, the device the
\* call goes on to connect to is a vehicle device, whatever the signal strengths of
\* the other devices of the scan.
C15_NamesBeforeSignal ==
  [][\A i \in Calls :
       (cPc[i] = "scanning" /\ cPc'[i] # "scanning" /\ candidates'[i].vehicle > 0)
       => LET bestDevice == candidates'[i].best
          IN  /\ bestDevice \in Devices
              /\ \/ cDev'[i] = bestDevice
                 \/ isConnected /\ connectedDevice = bestDevice]_vars

C15_WeakerVehicleChosen ==
  \E i \in Calls :
    /\ candidates[i].outshone /\ candidates[i].vehicle > 0
    /\ cPc[i] = "connecting" /\ cDev[i] = candidates[i].best /\ cDev[i] \in Devices

\* C16: when exactly one device was ever connected (the remembered device) and the
\* scan of an autoConnect call holds it, it is the device the call chooses.
C16_RememberedFirst ==
  [][\A i \in Calls, d \in Devices :
       (/\ cPc[i] = "scanning" /\ cPc'[i] # "scanning"
        /\ monitored = {d} /\ candidates'[i].vehicle = NumDevices)
       => candidates'[i].best = d]_vars

\* C17: sendCommand returns true exactly when the line the actuator answered is the
\* success literal of the command sent.
C17_AckIffExpected ==
  [][\A k \in Taps :
       (hPc[k] = "writing" /\ hPc'[k] = "idle")
       => ((last' = "send_true") <=> (reply' \in Expected(hAct[k])))]_vars

\* C18: a sendCommand called while the service is not connected throws: it starts
\* no write and leaves the connection state, the device, the links and the
\* heartbeat as they were.
C18_NotConnectedRejected ==
  [][(/\ budget' < budget /\ last' \in {"write_issued", "send_threw"}
      /\ ~(isConnected /\ connectedDevice # NoDevice))
       => /\ last' = "send_threw"
          /\ hPc' = hPc /\ hDev' = hDev /\ bPc' = bPc
          /\ isConnected' = isConnected /\ connectedDevice' = connectedDevice
          /\ link' = link /\ heartbeatInterval' = heartbeatInterval]_vars

C18_RejectedWhileConnecting ==
  /\ last = "send_threw" /\ ~isConnected
  /\ \E i \in Calls : cPc[i] = "connecting"
  /\ \A k \in Taps : hPc[k] = "idle"

\* C19: the step that ends a command, whatever its outcome (a rejected write, a
\* read timeout, any answer), leaves the connected device, the isConnected the
\* subscribers were told, the link and the connect calls as they were.
C19_FailedCommandKeepsConnection ==
  [][\A k \in Taps :
       (client = "hc06" /\ hPc[k] # "idle" /\ hPc'[k] = "idle")
       => /\ connectedDevice' = connectedDevice /\ uiIsConnected' = uiIsConnected
          /\ link' = link /\ cPc' = cPc /\ isConnecting' = isConnecting]_vars

C19_TimeoutStillConnected ==
  /\ last = "read_timeout" /\ hookError
  /\ connectedDevice = Receiver /\ uiIsConnected /\ link[Receiver] = "open"

\* C20: right after an autoConnect of the screen has ended with no vehicle device
\* found, with no reconnect timer of a return to the foreground pending, a new
\* initialization (and with it a scan) is started by an action of the user only.
C20_NoRetryOnItsOwn ==
  [][(/\ last = "no_match" /\ reinitTimers = 0
      /\ \E i \in Calls : cPc[i] = "idle" /\ cPc'[i] = "initializing")
       => budget' < budget]_vars

\* C21: while the retry loop of a connect call is still running, what the
\* subscriber holds says so: the hook shows isConnecting.
C21_RetryingIsVisible ==
  (\E c \in Calls : cPc[c] \in {"attempting", "backoff"}) => isConnecting

\* C22: whenever the actuator has executed LOCK or UNLOCK, the answer it wrote is
\* the literal the client takes for the success of that command.
C22_AckLiteral ==
  /\ rxValue = Wire("lock") => txValue \in Expected("lock")
  /\ rxValue = Wire("unlock") => txValue \in Expected("unlock")

\* C30: a session in which the user sends nothing after connecting is never ended
\* by the actuator: the client's periodic STATUS comes before the actuator's
\* inactivity timeout.
C30_IdleSessionKept ==
  [][(connectionActive /\ budget = MaxFwEvents - 1) => connectionActive']_vars

\* C23: the list of matching devices is in descending order of signal over every
\* integer value, and a device without a signal value comes after every device
\* that has one: no entry of the list should stand before an earlier one.
C23_StrongestFirst ==
  "filter" \in matcherRan =>
    \A i, j \in 1..Len(matchedDevices) :
      i < j =>
        ~ /\ matchedDevices[j].rssi # <<>>
          /\ \/ matchedDevices[i].rssi = <<>>
             \/ matchedDevices[j].rssi[1] > matchedDevices[i].rssi[1]

\* C24: when no discovered device matches by name, each matcher selects the device
\* whose signal is above the floor of -60 if there is exactly one such device, and
\* selects nothing otherwise.
C24_StrongSignalFallback ==
  LET above == {n \in 1..Len(scanned) :
                  scanned[n].rssi # <<>> /\ scanned[n].rssi[1] > STRONG_SIGNAL}
      wanted == IF Cardinality(above) = 1
                THEN scanned[CHOOSE n \in above : TRUE].id ELSE NoDevice
  IN  FilterVehicle(scanned) = <<>> =>
        /\ "filter" \in matcherRan => matchedBest = wanted
        /\ "identify" \in matcherRan => identified = wanted

\* C25: the heartbeat writes its STATUS only while no command of the application
\* is in flight: no step in which a heartbeat starts its write is taken while a
\* sendCommand of the user is awaiting its own write.
C25_ProbeOnlyWhenIdle ==
  [][(\E b \in Beats : bPc[b] # "writing" /\ bPc'[b] = "writing")
       => \A k \in Taps : hPc[k] # "writing"]_vars

\* C26: the disconnect event of a device other than the one of the current session
\* (a device that was replaced or cancelled earlier) leaves the current session as
\* it is: still connected, to the same device, with its heartbeat.
C26_StaleEventIgnored ==
  [][\A d \in Devices :
       (/\ d \in pendingDisc /\ d \notin pendingDisc'
        /\ isConnected /\ connectedDevice # NoDevice /\ connectedDevice # d)
       => /\ isConnected' /\ connectedDevice' = connectedDevice
          /\ heartbeatInterval' = heartbeatInterval]_vars

\* C27: whatever the callbacks unsubscribe while a change is notified, every callback
\* that is still subscribed when the notification ends was called for it exactly
\* once, and no callback unsubscribed before the notification was called.
C27_UnsubscribeIsSafe ==
  [][last' \in {"connect_failed", "disconnect_returned"}
       => \A s \in Subs :
            LET calls == Cardinality({n \in 1..Len(delivered') : delivered'[n] = s})
            IN  /\ (\E n \in 1..Len(connectionListeners') : connectionListeners'[n] = s)
                  => calls = 1
                /\ (\A n \in 1..Len(connectionListeners) : connectionListeners[n] # s)
                  => calls = 0]_vars

\* C28: the heartbeat interval of the BLE service exists only while isConnected is
\* true: whatever sets isConnected to false leaves no heartbeat timer behind.
C28_HeartbeatOnlyWhileConnected == heartbeatInterval => isConnected

\* C29: once the automatic connect of the main screen has succeeded, the screen
\* calls disconnect() on the session only when it unmounts or the app leaves the
\* foreground, both events from outside: it does not end the session on its own.
C29_NoDisconnectOnItsOwn ==
  [][(/\ isConnected /\ uiIsConnected /\ mounted = "yes"
      /\ disconnecting' > disconnecting)
       => budget' < budget]_vars

====
